---- MODULE Spec2Model ----
(***************************************************************************)
(* Model of art/attacks/boundary.py: the Boundary attack object, its       *)
(* parameter store and validation (set_params), and the batch driver       *)
(* generate with the per-example initialisation by rejection sampling.     *)
(*                                                                         *)
(* Python values are pairs <<type tag, payload>>.  Floats are counted in   *)
(* tenths (PyFloat(5) is 0.5).  Labels are small integers, samples are     *)
(* numbered arrays; the classifier is an external oracle whose answers are *)
(* chosen freely.                                                          *)
(***************************************************************************)
EXTENDS Integers, Sequences, FiniteSets, TLC

\* ---------------------------------------------------------------- bounds
\* Largest batch handed to generate.
MaxBatch == 2
\* Largest init_size an instance carries.
MaxInitSize == 2
\* Largest number of keyword options in one set_params / generate call.
MaxKwargs == 1
\* Number of class labels of the classifier.
NumLabels == 2
\* Number of distinct sample values inside [clip_min, clip_max].
NumSamples == 1
\* The count of classifier queries saturates here ("this many or more").
QueryCap == 2

\* ---------------------------------------------------------------- values
PyInt(n) == <<"int", n>>
PyFloat(n) == <<"float", n>>
PyBool(n) == <<"bool", n>>
PyTrue == PyBool(1)
PyFalse == PyBool(0)
\* An attribute that was never assigned: reading it raises AttributeError.
Unset == <<"unset", 0>>
\* Python's None, for samples and label batches; arrays are tagged too.
PyNone == <<"None", 0>>
Arr(v) == <<"arr", v>>

Labels == 0 .. (NumLabels - 1)
Samples == {Arr(s) : s \in 0 .. (NumSamples - 1)}
\* The batches handed to generate.  generate only copies and indexes x, so
\* one batch per length is enough: example i is the sample Arr(i), which
\* tells the examples apart and overlaps the samples a search can draw.
Batches == {[i \in 1 .. n |-> Arr(i)] : n \in 1 .. MaxBatch}

\* The value 1.0 in tenths: the upper end of step_adapt's open interval.
StepAdaptOne == 10

Keys == {"targeted", "delta", "epsilon", "step_adapt", "max_iter", "sample_size", "init_size"}

\* Boundary.attack_params: the names the base class's set_params stores.
attack_params == {"targeted", "delta", "epsilon", "step_adapt", "max_iter", "sample_size"}

\* Values a caller may pass for each option (valid and invalid ones).
IntArgs == {PyInt(n) : n \in -1 .. 1} \cup {PyFloat(15)}
FloatArgs == {PyFloat(n) : n \in -1 .. 1}
StepAdaptArgs == {PyFloat(0), PyFloat(5), PyFloat(StepAdaptOne), PyFloat(15)}
ArgVals(k) ==
    CASE k = "targeted" -> {PyTrue, PyFalse}
      [] k \in {"delta", "epsilon"} -> FloatArgs
      [] k = "step_adapt" -> StepAdaptArgs
      [] OTHER -> IntArgs

AllArgVals == UNION {ArgVals(k) : k \in Keys}

\* Keyword dictionaries with at most n options.
KwargsUpTo(n) ==
    UNION {{kw \in [S -> AllArgVals] : \A k \in S : kw[k] \in ArgVals(k)} :
           S \in {T \in SUBSET Keys : Cardinality(T) <= n}}
Kwargs == KwargsUpTo(MaxKwargs)
\* __init__ passes all seven options (defaults or the caller's values).
InitParams ==
    [targeted : ArgVals("targeted"), delta : ArgVals("delta"), epsilon : ArgVals("epsilon"),
     step_adapt : ArgVals("step_adapt"), max_iter : ArgVals("max_iter"),
     sample_size : ArgVals("sample_size"), init_size : ArgVals("init_size")]

NoError == <<"none", 0>>

VARIABLES
    pc,           \* "new" | "failed" | "idle" | "predict" | "loop" | "init" | "attack"
    attrs,        \* the instance's attributes, by option name
    raised,       \* exception the most recent call raised: <<type, line>>
    wasInvalid,   \* the stored options failed validation when the call was entered
    x,            \* generate's input batch
    y,            \* generate's target labels: PyNone or Arr(labels)
    preds,        \* labels predicted for x
    x_adv,        \* generate's working copy / result
    ind,          \* index of the example the for loop is at (1-based)
    initRes,      \* outcome of _init_sample per processed example
    order,        \* indices of the processed examples, in completion order
    attackArg,    \* argument of the _attack call for the current / most recent example
    initial_sample, \* result of the current / most recent _init_sample
    trialLabels,  \* labels seen by the trials of that _init_sample
    draws,        \* random samples it drew
    initQueries,  \* classifier queries it issued
    queries       \* classifier.predict calls of the current generate call

vars == <<pc, attrs, raised, wasInvalid, x, y, preds, x_adv, ind,
          initRes, order, attackArg, initial_sample, trialLabels, draws, initQueries, queries>>

locals == <<x, y, preds, x_adv, ind, initRes, order, attackArg, initial_sample,
            trialLabels, draws, initQueries>>

\* One more classifier.predict call.
Count(q) == IF q < QueryCap THEN q + 1 ELSE QueryCap

\* ---------------------------------------------------------- set_params
\* Attack.set_params: store every passed option that attack_params names.
Attack_set_params(a, kw) ==
    [k \in Keys |-> IF k \in DOMAIN kw /\ k \in attack_params THEN kw[k] ELSE a[k]]

isinstance_int(v) == v[1] = "int"

\* Line 236 as a slip would have it: the closed upper end is let through.
step_adapt_rejected_closed(v) == v[2] <= 0 \/ v[2] > StepAdaptOne

\* Line 236: step_adapt outside the open interval (0, 1).
step_adapt_rejected(v) == v[2] <= 0 \/ v[2] >= StepAdaptOne

\* The checks of Boundary.set_params after the store, in source order; the
\* result is the exception raised, or NoError when set_params returns True.
set_params_checks(a) ==
    IF a["max_iter"] = Unset THEN <<"AttributeError", 221>>
    ELSE IF ~isinstance_int(a["max_iter"]) \/ a["max_iter"][2] <= 0 THEN <<"ValueError", 222>>
    ELSE IF a["sample_size"] = Unset THEN <<"AttributeError", 224>>
    ELSE IF ~isinstance_int(a["sample_size"]) \/ a["sample_size"][2] <= 0 THEN <<"ValueError", 225>>
    ELSE IF a["init_size"] = Unset THEN <<"AttributeError", 227>>
    ELSE IF ~isinstance_int(a["init_size"]) \/ a["init_size"][2] <= 0 THEN <<"ValueError", 228>>
    ELSE IF a["epsilon"] = Unset THEN <<"AttributeError", 230>>
    ELSE IF a["epsilon"][2] <= 0 THEN <<"ValueError", 231>>
    ELSE IF a["delta"] = Unset THEN <<"AttributeError", 233>>
    ELSE IF a["delta"][2] <= 0 THEN <<"ValueError", 234>>
    ELSE IF a["step_adapt"] = Unset THEN <<"AttributeError", 236>>
    ELSE IF step_adapt_rejected(a["step_adapt"]) THEN <<"ValueError", 237>>
    ELSE NoError

\* Locals of generate before the call has assigned them.
ResetLocals ==
    /\ x' = <<>>
    /\ y' = PyNone
    /\ preds' = <<>>
    /\ x_adv' = <<>>
    /\ ind' = 0
    /\ initRes' = <<>>
    /\ order' = <<>>
    /\ attackArg' = PyNone
    /\ initial_sample' = PyNone
    /\ trialLabels' = <<>>
    /\ draws' = 0
    /\ initQueries' = 0

\* The instance before Boundary.__init__ runs.  Boundary never assigns
\* init_size (attack_params omits it), so whether the attribute exists, and
\* with which trial budget, is decided by the class hierarchy outside this
\* file: absent, or some positive integer.
Init ==
    /\ pc = "new"
    /\ attrs \in {[k \in Keys |-> IF k = "init_size" THEN v ELSE Unset] :
                  v \in {Unset} \cup {PyInt(n) : n \in 1 .. MaxInitSize}}
    /\ raised = NoError
    /\ wasInvalid = FALSE
    /\ x = <<>>
    /\ y = PyNone
    /\ preds = <<>>
    /\ x_adv = <<>>
    /\ ind = 0
    /\ initRes = <<>>
    /\ order = <<>>
    /\ attackArg = PyNone
    /\ initial_sample = PyNone
    /\ trialLabels = <<>>
    /\ draws = 0
    /\ initQueries = 0
    /\ queries = 0

\* Boundary.__init__: set_params with all seven options; an exception
\* leaves the caller without an instance.
Construct(params) ==
    /\ pc = "new"
    /\ attrs' = Attack_set_params(attrs, params)
    /\ raised' = set_params_checks(attrs')
    /\ pc' = IF raised' = NoError THEN "idle" ELSE "failed"
    /\ UNCHANGED <<wasInvalid, locals, queries>>

\* Boundary.set_params called on the instance.
SetParams(kw) ==
    /\ pc = "idle"
    /\ attrs' = Attack_set_params(attrs, kw)
    /\ raised' = set_params_checks(attrs')
    /\ wasInvalid' = (set_params_checks(attrs) # NoError)
    /\ queries' = 0
    /\ ResetLocals
    /\ UNCHANGED pc

\* ------------------------------------------------------------- generate
\* Lines 93-95 of generate: store and validate the keyword options and
\* take y out of them.
Generate(kw) ==
    /\ pc = "idle"
    /\ attrs' = Attack_set_params(attrs, kw)
    /\ raised' = set_params_checks(attrs')
    /\ wasInvalid' = (set_params_checks(attrs) # NoError)
    /\ queries' = 0
    /\ IF raised' # NoError
       THEN /\ ResetLocals
            /\ UNCHANGED pc
       ELSE \E xx \in Batches :
            \E yy \in {PyNone} \cup {Arr(l) : l \in [1 .. Len(xx) -> Labels]} :
               /\ x' = xx
               /\ y' = yy
               /\ preds' = <<>>
               /\ x_adv' = <<>>
               /\ ind' = 0
               /\ initRes' = <<>>
               /\ order' = <<>>
               /\ attackArg' = PyNone
               /\ initial_sample' = PyNone
               /\ trialLabels' = <<>>
               /\ draws' = 0
               /\ initQueries' = 0
               /\ pc' = "predict"

\* Lines 98-105: query the classifier for the predictions of x, then
\* require y when the attack is targeted, then copy x.
Predict ==
    /\ pc = "predict"
    /\ \E pp \in [1 .. Len(x) -> Labels] : preds' = pp
    /\ queries' = Count(queries)
    /\ IF attrs["targeted"] = PyTrue /\ y = PyNone
       THEN /\ raised' = <<"ValueError", 102>>
            /\ pc' = "idle"
            /\ UNCHANGED <<x_adv, ind>>
       ELSE /\ x_adv' = x
            /\ ind' = 1
            /\ pc' = "loop"
            /\ UNCHANGED raised
    /\ UNCHANGED <<attrs, wasInvalid, x, y, initRes, order, attackArg,
                   initial_sample, trialLabels, draws, initQueries>>

\* _perturb returning its local initial_sample where it should return x.
_perturb_returns_initial(val, initial, attacked) == IF initial = PyNone THEN initial ELSE attacked

\* _perturb without its last return statement: None after a successful walk.
_perturb_no_return(val, initial, attacked) == IF initial = PyNone THEN val ELSE PyNone

\* _perturb's result: the original example when no initial sample was
\* found, else what _attack returned.
_perturb(val, initial, attacked) == IF initial = PyNone THEN val ELSE attacked

\* _init_sample without the early exit of lines 167-169.
Satisfied_never == FALSE

\* Lines 166-169: the targeted attack is already satisfied.
Satisfied == attrs["targeted"] = PyTrue /\ y[2][ind] = preds[ind]

\* The goal test of a trial, lines 176 and 189.
Goal(random_class) ==
    IF attrs["targeted"] = PyTrue THEN random_class = y[2][ind]
    ELSE random_class # preds[ind]

\* range(self.init_size + 1): one trial too many.
MoreTrials_off_by_one(n) == n <= attrs["init_size"][2]

\* range(self.init_size): another trial follows n completed ones.
MoreTrials(n) == n < attrs["init_size"][2]

\* The loop giving up the batch when an example's initialisation is exhausted.
Advance_abort(res, x_) ==
    /\ x_adv' = [x_adv EXCEPT ![ind] = x_]
    /\ initRes' = Append(initRes, res)
    /\ order' = Append(order, ind)
    /\ ind' = ind + 1
    /\ pc' = IF res = "exhausted" THEN "idle" ELSE "loop"

\* The for loop's step to the next example after x_adv[ind] = x_.
Advance(res, x_) ==
    /\ x_adv' = [x_adv EXCEPT ![ind] = x_]
    /\ initRes' = Append(initRes, res)
    /\ order' = Append(order, ind)
    /\ ind' = ind + 1
    /\ pc' = "loop"

\* One example whose target label is already predicted: _init_sample
\* returns None at line 169 and _perturb returns the example.
InitSatisfied ==
    /\ pc = "loop"
    /\ ind <= Len(x)
    /\ Satisfied
    /\ initial_sample' = PyNone
    /\ trialLabels' = <<>>
    /\ draws' = 0
    /\ initQueries' = 0
    /\ attackArg' = PyNone
    /\ Advance("satisfied", _perturb(x_adv[ind], PyNone, PyNone))
    /\ UNCHANGED <<attrs, raised, wasInvalid, x, y, preds, queries>>

\* One trial of _init_sample (lines 172-180, 185-193): draw a random
\* sample, query the classifier on it, stop at the first one that meets the
\* goal; after init_size failed trials the for-else returns None.
InitTrial ==
    /\ \/ pc = "loop" /\ ind <= Len(x) /\ ~Satisfied
       \/ pc = "init"
    /\ LET done == IF pc = "loop" THEN <<>> ELSE trialLabels
           d == IF pc = "loop" THEN 0 ELSE draws
           q == IF pc = "loop" THEN 0 ELSE initQueries
       IN \E random_img \in Samples : \E random_class \in Labels :
            /\ trialLabels' = Append(done, random_class)
            /\ draws' = d + 1
            /\ initQueries' = q + 1
            /\ queries' = Count(queries)
            /\ attackArg' = PyNone
            /\ IF Goal(random_class)
               THEN /\ initial_sample' = random_img
                    /\ pc' = "attack"
                    /\ UNCHANGED <<x_adv, initRes, order, ind>>
               ELSE IF MoreTrials(Len(done) + 1)
               THEN /\ initial_sample' = PyNone
                    /\ pc' = "init"
                    /\ UNCHANGED <<x_adv, initRes, order, ind>>
               ELSE /\ initial_sample' = PyNone
                    /\ Advance("exhausted", _perturb(x_adv[ind], PyNone, PyNone))
    /\ UNCHANGED <<attrs, raised, wasInvalid, x, y, preds>>

\* What _attack can return: the boundary walk always returns a sample
\* inside the clip range.
_attack(initial) == Samples

\* Lines 142-145 and 114: _attack on the initial sample, which queries the
\* classifier on its way, and the store of its result.
Attack ==
    /\ pc = "attack"
    /\ \E attacked \in _attack(initial_sample) :
         Advance("found", _perturb(x_adv[ind], initial_sample, attacked))
    /\ attackArg' = initial_sample
    /\ queries' = Count(queries)
    /\ UNCHANGED <<attrs, raised, wasInvalid, x, y, preds,
                   initial_sample, trialLabels, draws, initQueries>>

\* Lines 116-119: the loop is over; predict on the result and return it.
\* The caller is left with the batch it passed and the record of the
\* examples done; the other locals are gone.
GenerateReturn ==
    /\ pc = "loop"
    /\ ind > Len(x)
    /\ queries' = Count(queries)
    /\ pc' = "idle"
    /\ y' = PyNone
    /\ preds' = <<>>
    /\ x_adv' = <<>>
    /\ ind' = 0
    /\ initRes' = <<>>
    /\ attackArg' = PyNone
    /\ initial_sample' = PyNone
    /\ trialLabels' = <<>>
    /\ draws' = 0
    /\ initQueries' = 0
    /\ UNCHANGED <<attrs, raised, wasInvalid, x, order>>

\* The calls a client can make, with every argument it can pass.
ConstructCall == pc = "new" /\ \E params \in InitParams : Construct(params)
SetParamsCall == pc = "idle" /\ \E kw \in Kwargs : SetParams(kw)
GenerateCall == pc = "idle" /\ \E kw \in Kwargs : Generate(kw)

Next ==
    \/ ConstructCall
    \/ SetParamsCall
    \/ GenerateCall
    \/ Predict
    \/ InitSatisfied
    \/ InitTrial
    \/ Attack
    \/ GenerateReturn

Spec == Init /\ [][Next]_vars

\* ================================================================ claims
\* What the specification demands of one option value.
ValueOK(k, v) ==
    CASE k = "targeted" -> v[1] = "bool"
      [] k \in {"max_iter", "sample_size", "init_size"} -> v[1] = "int" /\ v[2] > 0
      [] k \in {"delta", "epsilon"} -> v[1] = "float" /\ v[2] > 0
      [] k = "step_adapt" -> v[1] = "float" /\ v[2] > 0 /\ v[2] < StepAdaptOne

\* A configuration all of whose values satisfy their domain constraints.
DomainOK(cfg) == \A k \in Keys : ValueOK(k, cfg[k])

\* The configuration a call asks for: the stored one, overridden by kw.
Asked(a, kw) == [k \in Keys |-> IF k \in DOMAIN kw THEN kw[k] ELSE a[k]]

Searching == pc \in {"loop", "init", "attack"}

\* The example the current / most recent _init_sample ran for.
InitExample == IF pc = "loop" THEN ind - 1 ELSE ind

\* The goal of the search for example k, as the specification words it.
MeetsGoal(k, c) == IF attrs["targeted"] = PyTrue THEN c = y[2][k] ELSE c # preds[k]

\* C1: a generate call with targeted=True and no y raises its error while
\* the count of classifier.predict calls of that call is still zero.
C1_MissingLabelsBeforeAnyQuery == raised = <<"ValueError", 102>> => queries = 0

\* C2: the constructor and set_params accept exactly the configurations
\* whose values (the passed ones, over the stored ones) all satisfy the
\* domain constraints, and raise for every other one.
C2_AcceptsExactlyValid ==
    [][/\ \A v \in ArgVals("init_size") :
            Construct([attrs' EXCEPT !["init_size"] = v])
                => (raised' = NoError <=> DomainOK([attrs' EXCEPT !["init_size"] = v]))
       /\ \A kw \in Kwargs :
            SetParams(kw) => (raised' = NoError <=> DomainOK(Asked(attrs, kw)))]_vars

\* C3: a generate call that passes an invalid option value fails in
\* validation, before any classifier query of that call.
C3_InvalidKwargFailsBeforeQuery ==
    [][\A kw \in Kwargs :
         (Generate(kw) /\ \E k \in DOMAIN kw : ~ValueOK(k, kw[k]))
             => (raised' # NoError /\ pc' = "idle" /\ queries' = 0)]_vars

\* C4: every processed example whose _init_sample returned None (target
\* already predicted, or all trials used up) has its input at its index of
\* the result.
C4_NoneKeepsInput ==
    \A i \in 1 .. Len(initRes) :
        initRes[i] \in {"satisfied", "exhausted"} => x_adv[i] = x[i]

C4_Witness ==
    /\ pc = "loop"
    /\ ind > Len(x)
    /\ \E i \in 1 .. Len(initRes) : initRes[i] = "exhausted"
    /\ \E i \in 1 .. Len(initRes) : initRes[i] = "satisfied"

\* C5: after a constructor, set_params or generate call that succeeds, each
\* option the call passed is stored with the passed value.
C5_PassedOptionIsStored ==
    [][/\ \A v \in ArgVals("init_size") :
            (Construct([attrs' EXCEPT !["init_size"] = v]) /\ raised' = NoError)
                => attrs'["init_size"] = v
       /\ \A kw \in Kwargs :
            ((SetParams(kw) \/ Generate(kw)) /\ raised' = NoError)
                => \A k \in DOMAIN kw : attrs'[k] = kw[k]]_vars

C7_NoPartialBatchAbort ==
    /\ Searching
           => /\ ind \in 1 .. Len(x) + 1
              /\ order = [i \in 1 .. ind - 1 |-> i]
              /\ Len(initRes) = ind - 1
              /\ Len(x_adv) = Len(x)
              /\ raised = NoError
    /\ (pc = "idle" /\ raised = NoError) => order = [i \in 1 .. Len(x) |-> i]

C7_Witness ==
    /\ pc = "loop"
    /\ ind > Len(x)
    /\ Len(x) >= 2
    /\ initRes[1] = "exhausted"
    /\ order = [i \in 1 .. Len(x) |-> i]

\* C8: in a targeted attack on an example whose target label is already
\* the predicted one, _init_sample returns None, draws no random sample and
\* issues no classifier query.
C8_SatisfiedTargetNoWork ==
    /\ (pc \in {"init", "attack"} /\ attrs["targeted"] = PyTrue) => y[2][ind] # preds[ind]
    /\ (pc = "loop" /\ Len(initRes) >= 1 /\ attrs["targeted"] = PyTrue
          /\ y[2][ind - 1] = preds[ind - 1])
           => /\ initRes[ind - 1] = "satisfied"
              /\ initial_sample = PyNone
              /\ draws = 0
              /\ initQueries = 0
              /\ trialLabels = <<>>

C8_Witness ==
    /\ pc = "loop"
    /\ Len(initRes) >= 1
    /\ initRes[ind - 1] = "satisfied"
    /\ draws = 0
    /\ initQueries = 0

\* C9: _init_sample issues one classifier query per trial and at most
\* init_size of them; no trial before the last met the goal; it returns the
\* sample of a trial that met the goal, and None exactly after init_size
\* trials none of which met it.
C9_InitializerTrials ==
    Searching =>
        /\ initQueries = Len(trialLabels)
        /\ draws = Len(trialLabels)
        /\ Len(trialLabels) <= attrs["init_size"][2]
        /\ Len(trialLabels) >= 1
               => \A j \in 1 .. Len(trialLabels) - 1 : ~MeetsGoal(InitExample, trialLabels[j])
        /\ pc = "init"
               => /\ Len(trialLabels) \in 1 .. attrs["init_size"][2] - 1
                  /\ ~MeetsGoal(ind, trialLabels[Len(trialLabels)])
        /\ pc = "attack"
               => /\ initial_sample \in Samples
                  /\ MeetsGoal(ind, trialLabels[Len(trialLabels)])
        /\ (pc = "loop" /\ Len(initRes) >= 1 /\ initRes[ind - 1] = "exhausted")
               => /\ initial_sample = PyNone
                  /\ Len(trialLabels) = attrs["init_size"][2]
                  /\ \A j \in 1 .. Len(trialLabels) : ~MeetsGoal(ind - 1, trialLabels[j])
        /\ (pc = "loop" /\ Len(initRes) >= 1 /\ initRes[ind - 1] = "found")
               => /\ initial_sample \in Samples
                  /\ MeetsGoal(ind - 1, trialLabels[Len(trialLabels)])
        /\ (pc = "loop" /\ Len(initRes) >= 1 /\ initial_sample = PyNone
              /\ initRes[ind - 1] # "satisfied")
               => initRes[ind - 1] = "exhausted"

C9_Witness ==
    /\ pc = "loop"
    /\ Len(initRes) >= 2
    /\ initRes[1] = "found"
    /\ initRes[2] = "exhausted"
    /\ Len(trialLabels) = MaxInitSize

\* C10: a classifier query is issued only while every stored option
\* satisfies its domain constraint, whatever calls came before.
C10_QueriesOnlyUnderValidConfig ==
    (queries > 0 \/ pc \in {"predict", "loop", "init", "attack"}) => DomainOK(attrs)

C10_Witness ==
    /\ queries > 0
    /\ wasInvalid
    /\ Searching
====
